---- MODULE Spec2Model ----
(***************************************************************************)
(* Translation service of ckeditor5-utils (src/src/translation-service.js):*)
(* the process-wide dictionary window.CKEDITOR_TRANSLATIONS, the           *)
(* operations add() and _clear() that change it, and _translate(), which   *)
(* reads it.  Beside it: Message and Locale (src/src/locale.js), the       *)
(* ForceDisabledMixin (src/src/forcedisabledmixin.js) and CKEditorError    *)
(* (src/src/featuredetection/regexp.js), each under a specification of its *)
(* own over its own variables.                                             *)
(***************************************************************************)
EXTENDS Integers, Sequences, FiniteSets

VARIABLES
    CKEDITOR_TRANSLATIONS,  \* window.CKEDITOR_TRANSLATIONS
    lastRegistered,         \* history: per language and key, the value most recently added
    lastPluralForm,         \* history: per language, the function most recently passed
    lastCall,               \* history: the most recent _translate call since the last change of the store
    messageText,            \* Message: this.message
    formatValues,           \* Message: the values a format method is called with
    formatOutput,           \* Message: what the most recent format method call returned
    objectKind,             \* mixin: what the object is an instance of
    _disableStack,          \* mixin: this._disableStack
    isEnabled,              \* mixin: this.isEnabled
    listeners,              \* mixin: registrations of forceDisable on 'set:isEnabled'
    refreshCalled,          \* mixin: whether the most recent call called this.refresh()
    outstanding,            \* history: ids passed to forceDisabled and not since to clearForceDisabled
    lastOp,                 \* history: the most recent call on the object
    heap,                   \* error: the objects reachable from the data
    errorArguments,         \* error: the constructor's arguments
    error                   \* error: the outcome of new CKEditorError( message, data )

storeVars == <<CKEDITOR_TRANSLATIONS, lastRegistered, lastPluralForm, lastCall>>

messageVars == <<messageText, formatValues, formatOutput>>

mixinVars ==
    <<objectKind, _disableStack, isEnabled, listeners, refreshCalled, outstanding,
      lastOp>>

errorVars == <<heap, errorArguments, error>>

vars == <<storeVars, messageVars, mixinVars, errorVars>>

(***************************************************************************)
(* Bounds of the model.                                                    *)
(***************************************************************************)
\* amounts passed to _translate range over 0..MaxAmount
MaxAmount == 7
\* an add() call supplies between 1 and MaxKeysPerAdd keys
MaxKeysPerAdd == 1
\* generated message templates have up to MaxTemplateLen characters
MaxTemplateLen == 3
\* a format method is called with up to MaxValues generated values
MaxValues == 2
\* forceDisable is registered at most MaxListeners times at once
MaxListeners == 3
\* the data of an error reaches up to MaxObjects objects
MaxObjects == 2

(***************************************************************************)
(* JavaScript values: strings, arrays of strings and undefined, tagged so  *)
(* that values of different types can be compared.                         *)
(***************************************************************************)
Undefined == [t |-> "undefined", s |-> "", a |-> <<>>]

Str(s) == [t |-> "string", s |-> s, a |-> <<>>]

Arr(a) == [t |-> "array", s |-> "", a |-> a]

\* ToBoolean: undefined and the empty string are falsy, every array is truthy.
Truthy(v) == v.t = "array" \/ (v.t = "string" /\ v.s # "")

DigitChars == <<"0", "1", "2", "3", "4", "5", "6", "7", "8", "9">>

RECURSIVE DecimalString(_)
\* Number.prototype.toString: the decimal digits of an integer n >= 0
DecimalString(n) ==
    IF n < 10 THEN DigitChars[n + 1]
    ELSE DecimalString(n \div 10) \o DigitChars[(n % 10) + 1]

\* a number, kept as its decimal digits
Num(n) == [t |-> "number", s |-> DecimalString(n), a |-> <<>>]

\* an object that is no primitive, named by id
Obj(id) == [t |-> "object", s |-> id, a |-> <<>>]

RECURSIVE Join(_)
\* Array.prototype.join( ',' ) of an array of strings
Join(a) ==
    IF Len(a) = 0 THEN ""
    ELSE IF Len(a) = 1 THEN a[1]
    ELSE a[1] \o "," \o Join(Tail(a))

\* ToString of a value used in a string concatenation, as a property key, by
\* String( value ) or as the result of a replace() callback.
StringOf(v) ==
    CASE v.t = "string" -> v.s
      [] v.t = "number" -> v.s
      [] v.t = "object" -> "[object Object]"
      [] v.t = "array" -> Join(v.a)
      [] OTHER -> "undefined"

\* object[key]: the own property, or undefined.
Get(object, key) == IF key \in DOMAIN object THEN object[key] ELSE Undefined

\* array[index]: the element at a 0-based index that exists, or undefined.
Index(array, index) ==
    IF index \in 0..(Len(array.a) - 1) THEN Str(array.a[index + 1]) ELSE Undefined

\* {} : an object without own properties.
EmptyObject == [k \in {} |-> Undefined]

\* A mutant of ObjectAssign: the target is replaced wholesale by the source.
ObjectAssignReplace(target, source) == source

\* Object.assign( target, source ): every key of source is set on target.
ObjectAssign(target, source) ==
    [k \in DOMAIN target \cup DOMAIN source |->
        IF k \in DOMAIN source THEN source[k] ELSE target[k]]

(***************************************************************************)
(* Plural form functions.  A getPluralForm argument is a function chosen   *)
(* by the caller; the model offers two, and NoFunction for an argument     *)
(* that is not passed.                                                     *)
(***************************************************************************)
NoFunction == "undefined"

PluralFormFunctions == {"polish", "zero"}

\* n => n == 1 ? 0 : n % 10 >= 2 && n % 10 <= 4 && ( n % 100 < 10 || n % 100 >= 20 ) ? 1 : 2
getPolishPluralForm(n) ==
    IF n = 1 THEN 0
    ELSE IF n % 10 >= 2 /\ n % 10 <= 4 /\ (n % 100 < 10 \/ n % 100 >= 20) THEN 1
    ELSE 2

\* A mutant of DefaultPluralForm: the first form for every amount.
DefaultPluralFormZero(n) == 0

\* n => n === 1 ? 0 : 1, the function _translate uses when none is stored.
DefaultPluralForm(n) == IF n = 1 THEN 0 ELSE 1

\* getPluralForm( amount ) for the function named fn.
Call(fn, n) ==
    CASE fn = "polish" -> getPolishPluralForm(n)
      [] fn = "zero" -> 0
      [] OTHER -> DefaultPluralForm(n)

(***************************************************************************)
(* Inputs.                                                                 *)
(***************************************************************************)
Languages == {"pl", "de"}

\* languages a caller may ask for: the registered ones and one never registered
RequestLanguages == Languages \cup {"en"}

Amounts == 0..MaxAmount

PLURAL_FORMS == "PLURAL_FORMS"

PluralFormsRule == "nplurals=3;plural=n==1?0:n<=4?1:2"

MessageKeys == {"a", "a_c"}

\* the values add() registers under the key of a message without a context
EntryValues ==
    {Str(""), Str("x"), Arr(<<"v0", "v1", "v2">>), Arr(<<"w0">>), Arr(<<>>)}

\* the values add() registers under the key of a message with a context
ContextEntryValues == {Str(""), Str("y")}

\* the values a translations object may hold under key k
ValuesFor(k) ==
    CASE k = PLURAL_FORMS -> {Str(PluralFormsRule)}
      [] k = "a_c" -> ContextEntryValues
      [] OTHER -> EntryValues

\* the translations objects passed to add()
TranslationInputs ==
    LET keys == MessageKeys \cup {PLURAL_FORMS}
        small == {ks \in SUBSET keys : Cardinality(ks) \in 1..MaxKeysPerAdd}
        fixture == [k \in {PLURAL_FORMS, "a"} |->
                       IF k = PLURAL_FORMS THEN Str(PluralFormsRule)
                       ELSE Arr(<<"v0", "v1", "v2">>)]
    IN  UNION {{f \in [ks -> UNION {ValuesFor(k) : k \in ks}] :
                   \A k \in ks : f[k] \in ValuesFor(k)} : ks \in small}
        \cup {fixture}

\* the messages passed to _translate()
Messages ==
    [string : {Str("a"), Str("a_c")},
     context : {Undefined, Str(""), Str("c")},
     plural : {Undefined, Str("p")}]

(***************************************************************************)
(* The translation service.                                                *)
(***************************************************************************)
getNumberOfLanguages(T) == Cardinality(DOMAIN T)

hasTranslation(T, language, messageId) ==
    /\ language \in DOMAIN T
    /\ Truthy(Get(T[language].dictionary, messageId))

\* A mutant of StoredPluralForm: an absent argument resets the stored function.
StoredPluralFormReset(getPluralForm, stored) == getPluralForm

\* getPluralForm || languageTranslations.getPluralForm
StoredPluralForm(getPluralForm, stored) ==
    IF getPluralForm # NoFunction THEN getPluralForm ELSE stored

\* the record of a language after add( language, translations, getPluralForm )
AddedRecord(T, language, translations, getPluralForm) ==
    LET languageTranslations ==
            IF language \in DOMAIN T THEN T[language]
            ELSE [dictionary |-> EmptyObject, getPluralForm |-> NoFunction]
    IN  [dictionary |-> ObjectAssign(languageTranslations.dictionary, translations),
         getPluralForm |->
             StoredPluralForm(getPluralForm, languageTranslations.getPluralForm)]

add(language, translations, getPluralForm) ==
    CKEDITOR_TRANSLATIONS' =
        [l \in DOMAIN CKEDITOR_TRANSLATIONS \cup {language} |->
            IF l = language
            THEN AddedRecord(CKEDITOR_TRANSLATIONS, language, translations, getPluralForm)
            ELSE CKEDITOR_TRANSLATIONS[l]]

_clear == CKEDITOR_TRANSLATIONS' = EmptyObject

\* the first language key taken whenever any language is registered
OverrideLanguageFirst(T, language) ==
    IF getNumberOfLanguages(T) >= 1 THEN CHOOSE l \in DOMAIN T : TRUE ELSE language

\* the language _translate looks the message up in
OverrideLanguage(T, language) ==
    IF getNumberOfLanguages(T) = 1 THEN CHOOSE l \in DOMAIN T : TRUE ELSE language

\* the message id: message.string, followed by '_' and the context when one is passed
MessageId(message) ==
    IF Truthy(message.context)
    THEN StringOf(message.string) \o "_" \o StringOf(message.context)
    ELSE StringOf(message.string)

\* the function _translate picks the plural form with
PluralFormFunction(T, language) ==
    IF T[language].getPluralForm # NoFunction
    THEN T[language].getPluralForm ELSE "english"

_translate(T, requested, message, amount) ==
    LET numberOfLanguages == getNumberOfLanguages(T)
        language == OverrideLanguage(T, requested)
        messageId == MessageId(message)
    IN  IF numberOfLanguages = 0 \/ ~hasTranslation(T, language, messageId)
        THEN IF amount # 1 THEN message.plural ELSE message.string
        ELSE LET dictionary == T[language].dictionary
                 getPluralForm == PluralFormFunction(T, language)
             IN  IF dictionary[messageId].t = "string"
                 THEN dictionary[messageId]
                 ELSE Index(dictionary[messageId], Call(getPluralForm, amount))

(***************************************************************************)
(* Message and Locale (src/src/locale.js).                                 *)
(***************************************************************************)
IsDigit(c) == \E i \in 1..10 : DigitChars[i] = c

DigitValue(c) == (CHOOSE i \in 1..10 : DigitChars[i] = c) - 1

RECURSIVE parseInt(_)
\* parseInt( index, 10 ) of a string of digits
parseInt(digits) ==
    IF Len(digits) = 0 THEN 0
    ELSE parseInt(SubSeq(digits, 1, Len(digits) - 1)) * 10
             + DigitValue(SubSeq(digits, Len(digits), Len(digits)))

CharAt(string, i) == SubSeq(string, i, i)

RECURSIVE DigitsEnd(_, _)
\* the position of the last digit of the run of digits (\d+) that starts at i
DigitsEnd(string, i) ==
    IF i < Len(string) /\ IsDigit(CharAt(string, i + 1))
    THEN DigitsEnd(string, i + 1) ELSE i

\* whether /%(\d+)/ matches at position i
MatchesAt(string, i) ==
    /\ i < Len(string)
    /\ CharAt(string, i) = "%"
    /\ IsDigit(CharAt(string, i + 1))

RECURSIVE NextMatch(_, _)
\* regex.exec: the position of the first match at or after position from, or 0
NextMatch(string, from) ==
    IF from > Len(string) THEN 0
    ELSE IF MatchesAt(string, from) THEN from
    ELSE NextMatch(string, from + 1)

\* values[ index ] of the rest parameter
ValueAt(values, index) ==
    IF index \in 0..(Len(values) - 1) THEN values[index + 1] ELSE Undefined

\* the value the match at position at refers to: values[ parseInt( index, 10 ) ]
MatchedValue(string, at, values) ==
    ValueAt(values, parseInt(SubSeq(string, at + 1, DigitsEnd(string, at + 1))))

RECURSIVE FormatFrom(_, _, _)
FormatFrom(string, from, values) ==
    LET at == NextMatch(string, from)
    IN  IF at = 0 THEN SubSeq(string, from, Len(string))
        ELSE SubSeq(string, from, at - 1)
                 \o StringOf(MatchedValue(string, at, values))
                 \o FormatFrom(string, DigitsEnd(string, at + 1) + 1, values)

\* new Message( message ): this.message = String( message )
Message(message) == StringOf(message)

\* Message.format( ...values ): returns a string
format(message, values) ==
    [kind |-> "string", text |-> FormatFrom(message, 1, values), parts |-> <<>>]

Literal(text) == [part |-> "literal", value |-> Str(text)]

ValuePart(value) == [part |-> "value", value |-> value]

RECURSIVE PartsFrom(_, _, _)
PartsFrom(string, prevIndex, values) ==
    LET at == NextMatch(string, prevIndex)
    IN  IF at = 0 THEN <<Literal(SubSeq(string, prevIndex, Len(string)))>>
        ELSE <<Literal(SubSeq(string, prevIndex, at - 1)),
               ValuePart(MatchedValue(string, at, values))>>
                 \o PartsFrom(string, DigitsEnd(string, at + 1) + 1, values)

\* the value parts converted to strings and the parts joined, when every value
\* is a primitive
formatToPartsJoined(message, values) ==
    IF \A i \in 1..Len(values) : values[i].t # "object"
    THEN [kind |-> "string", text |-> FormatFrom(message, 1, values), parts |-> <<>>]
    ELSE [kind |-> "array", text |-> "", parts |-> PartsFrom(message, 1, values)]

\* Message.formatToParts( ...values ): returns the parts array
formatToParts(message, values) ==
    [kind |-> "array", text |-> "", parts |-> PartsFrom(message, 1, values)]

\* a message passed as a bare string: a string has no string, context or plural
\* property
BareMessage(text) ==
    [text |-> text, string |-> Undefined, context |-> Undefined, plural |-> Undefined]

\* the translate function Locale imports from the translation service, called
\* without an amount: amount = 1
translate(T, language, message) == _translate(T, language, message, 1)

\* Locale._t( msgid, values )
_t(T, uiLanguage, msgid, values) ==
    format(Message(translate(T, uiLanguage, msgid)), values).text

TemplateAlphabet == {"%", "0", "1", "a"}

RECURSIVE StringsUpTo(_)
\* the strings of up to n characters of the alphabet
StringsUpTo(n) ==
    IF n = 0 THEN {""}
    ELSE LET shorter == StringsUpTo(n - 1)
         IN  shorter \cup {string \o c : string \in shorter, c \in TemplateAlphabet}

\* the messages a Message is constructed with: those of the documentation and
\* of the tests, and every short string of the alphabet
Templates ==
    {"Replace %0 with %1", "%1 - %0 - %2", "%0 - %0", "Created file %0 in %1ms",
     "%10"}
        \cup StringsUpTo(MaxTemplateLen)

GeneratedValues == {Str("foo"), Num(12), Obj("o")}

RECURSIVE SeqsUpTo(_)
SeqsUpTo(n) ==
    IF n = 0 THEN {<<>>}
    ELSE LET shorter == SeqsUpTo(n - 1)
         IN  shorter \cup {Append(q, v) : q \in shorter, v \in GeneratedValues}

\* the value lists a format method is called with
ValueLists ==
    {<<Str("foo"), Str("bar")>>, <<Str("a"), Str("b"), Str("c")>>}
        \cup SeqsUpTo(MaxValues)

\* no format method has been called yet
NoOutput == [op |-> "none", kind |-> "none", text |-> "", parts |-> <<>>]

(***************************************************************************)
(* ForceDisabledMixin (src/src/forcedisabledmixin.js).  The emitter's on   *)
(* and off and the observable's setter are not part of the sources.        *)
(***************************************************************************)
\* what the object the mixin is mixed into is an instance of
Kinds == {"command", "plugin", "other"}

Ids == {"MyFeature", "OtherFeature", "ThirdFeature"}

\* this.on( 'set:isEnabled', this.forceDisable, ... ): one more registration
on(registrations) == registrations + 1

\* this.off( 'set:isEnabled', this.forceDisable ): every registration of the
\* callback is removed
off(registrations) == 0

\* forceDisable( evt ): evt.return = false
forceDisable == FALSE

\* this.isEnabled = value: 'set:isEnabled' is fired first and a callback's
\* evt.return replaces the value
SetIsEnabled(registrations, value) ==
    IF registrations > 0 THEN forceDisable ELSE value

\* the listener is dropped at every clearForceDisabled
IsEmptyAlways(stack) == TRUE

\* this._disableStack.size == 0
IsEmpty(stack) == Cardinality(stack) = 0

forceDisabled(id) ==
    LET stack == _disableStack \cup {id}
        registrations == IF Cardinality(stack) = 1 THEN on(listeners) ELSE listeners
    IN  /\ registrations <= MaxListeners
        /\ _disableStack' = stack
        /\ listeners' = registrations
        /\ isEnabled' = IF Cardinality(stack) = 1
                        THEN SetIsEnabled(registrations, FALSE) ELSE isEnabled

clearForceDisabled(id) ==
    LET stack == _disableStack \ {id}
    IN  /\ _disableStack' = stack
        /\ IF IsEmpty(stack)
           THEN /\ listeners' = off(listeners)
                /\ refreshCalled' = (objectKind = "command")
                /\ IF objectKind = "command"
                   THEN \* this.refresh(): the command decides its own state
                        \E refreshed \in BOOLEAN :
                            isEnabled' = SetIsEnabled(off(listeners), refreshed)
                   ELSE IF objectKind = "plugin"
                   THEN isEnabled' = SetIsEnabled(off(listeners), TRUE)
                   ELSE isEnabled' = isEnabled
           ELSE /\ refreshCalled' = FALSE
                /\ UNCHANGED <<listeners, isEnabled>>

(***************************************************************************)
(* CKEditorError (src/src/featuredetection/regexp.js).  The data is an     *)
(* object of the heap or undefined; an object has a class and the property *)
(* bar, which is absent, a number or a reference to an object.             *)
(***************************************************************************)
ObjectIds == 1..MaxObjects

Absent == [kind |-> "absent", n |-> 0]

Number(n) == [kind |-> "number", n |-> n]

Ref(o) == [kind |-> "ref", n |-> o]

\* no data argument
NoData == [kind |-> "undefined", n |-> 0]

PropertyValues == {Absent, Number(1)} \cup {Ref(o) : o \in ObjectIds}

Heaps == [ObjectIds -> [class : {"Object", "Foo"}, bar : PropertyValues]]

Throws == [thrown |-> TRUE, text |-> ""]

Returns(text) == [thrown |-> FALSE, text |-> text]

RECURSIVE Stringify(_, _, _)
\* JSON.stringify of object o, met inside the objects of ancestors: it throws
\* a TypeError on a circular structure
Stringify(h, o, ancestors) ==
    LET bar == h[o].bar
    IN  IF o \in ancestors THEN Throws
        ELSE IF bar.kind = "absent" THEN Returns("{}")
        ELSE IF bar.kind = "number"
        THEN Returns("{\"bar\":" \o DecimalString(bar.n) \o "}")
        ELSE LET inner == Stringify(h, bar.n, ancestors \cup {o})
             IN  IF inner.thrown THEN Throws
                 ELSE Returns("{\"bar\":" \o inner.text \o "}")

\* not constructed yet
NoError == [done |-> FALSE, thrown |-> FALSE, name |-> "", message |-> "",
            data |-> NoData]

\* new CKEditorError( message, data ): the error, or the exception the
\* constructor throws
CKEditorError(h, message, data) ==
    IF data # NoData
    THEN LET json == Stringify(h, data.n, {})
         IN  IF json.thrown
             THEN [done |-> TRUE, thrown |-> TRUE, name |-> "TypeError",
                   message |-> "", data |-> NoData]
             ELSE [done |-> TRUE, thrown |-> FALSE, name |-> "CKEditorError",
                   message |-> message \o " " \o json.text, data |-> data]
    ELSE [done |-> TRUE, thrown |-> FALSE, name |-> "CKEditorError",
          message |-> message, data |-> data]

\* a record is created for the requested language, as add() creates one
StoreAfterTranslateCreating(T, language, message, amount) ==
    [l \in DOMAIN T \cup {language} |->
        IF l \in DOMAIN T THEN T[l]
        ELSE [dictionary |-> EmptyObject, getPluralForm |-> NoFunction]]

\* the store after a call of _translate, which assigns to nothing but its locals
StoreAfterTranslate(T, language, message, amount) == T


(***************************************************************************)
(* The specifications.  Spec: the store starts empty and is changed by     *)
(* add() and _clear().  SpecTranslate: the same with fewer translations    *)
(* and with calls of _translate.  SpecMessage: a Message and the calls of  *)
(* its format methods.  SpecMixin: an object with the mixin.  SpecError:   *)
(* the construction of a CKEditorError.  The variables a specification     *)
(* does not use keep their idle values.                                    *)
(***************************************************************************)
NoCall ==
    [called |-> FALSE, repeated |-> FALSE, language |-> "",
     message |-> [string |-> Undefined, context |-> Undefined, plural |-> Undefined],
     amount |-> 0, result |-> Undefined]

StoreIdle ==
    /\ CKEDITOR_TRANSLATIONS = EmptyObject
    /\ lastRegistered = EmptyObject
    /\ lastPluralForm = EmptyObject
    /\ lastCall = NoCall

MessageIdle ==
    /\ messageText = ""
    /\ formatValues = <<>>
    /\ formatOutput = NoOutput

MixinIdle ==
    /\ objectKind = "other"
    /\ _disableStack = {}
    /\ isEnabled = TRUE
    /\ listeners = 0
    /\ refreshCalled = FALSE
    /\ outstanding = {}
    /\ lastOp = [op |-> "new", id |-> ""]

ErrorIdle ==
    /\ heap = [o \in ObjectIds |-> [class |-> "Object", bar |-> Absent]]
    /\ errorArguments = [message |-> "", data |-> NoData]
    /\ error = NoError

Init ==
    /\ CKEDITOR_TRANSLATIONS = EmptyObject
    /\ lastRegistered = EmptyObject
    /\ lastPluralForm = EmptyObject
    /\ lastCall = NoCall
    /\ MessageIdle
    /\ MixinIdle
    /\ ErrorIdle

\* The history of the add() calls since the last _clear(), kept beside the store.
RecordAdd(language, translations, getPluralForm) ==
    /\ lastRegistered' =
           [l \in DOMAIN lastRegistered \cup {language} |->
               IF l # language THEN lastRegistered[l]
               ELSE LET before == IF l \in DOMAIN lastRegistered
                                  THEN lastRegistered[l] ELSE EmptyObject
                    IN  [k \in DOMAIN before \cup DOMAIN translations |->
                            IF k \in DOMAIN translations THEN translations[k]
                            ELSE before[k]]]
    /\ lastPluralForm' =
           [l \in DOMAIN lastPluralForm \cup {language} |->
               IF l = language /\ getPluralForm # NoFunction THEN getPluralForm
               ELSE IF l \in DOMAIN lastPluralForm THEN lastPluralForm[l]
               ELSE NoFunction]

Add ==
    \E language \in Languages, translations \in TranslationInputs,
       getPluralForm \in PluralFormFunctions \cup {NoFunction} :
        /\ add(language, translations, getPluralForm)
        /\ RecordAdd(language, translations, getPluralForm)
        /\ lastCall' = NoCall
        /\ UNCHANGED <<messageVars, mixinVars, errorVars>>

Clear ==
    /\ _clear
    /\ lastRegistered' = EmptyObject
    /\ lastPluralForm' = EmptyObject
    /\ lastCall' = NoCall
    /\ UNCHANGED <<messageVars, mixinVars, errorVars>>

Next == Add \/ Clear

Spec == Init /\ [][Next]_vars

\* the translations objects add() is called with beside calls of _translate
RegisterInputs ==
    {[k \in {"a"} |-> v] : v \in {Str("x"), Str(""), Arr(<<"v0", "v1", "v2">>)}}
        \cup {[k \in {"a_c"} |-> Str("y")]}

Register ==
    \E language \in Languages, translations \in RegisterInputs,
       getPluralForm \in {"polish", NoFunction} :
        /\ add(language, translations, getPluralForm)
        /\ RecordAdd(language, translations, getPluralForm)
        /\ lastCall' = NoCall
        /\ UNCHANGED <<messageVars, mixinVars, errorVars>>

\* the messages and amounts _translate is called with beside add() and _clear()
TranslateMessages ==
    [string : {Str("a")}, context : {Undefined, Str("c")},
     plural : {Undefined, Str("p")}]

TranslateAmounts == {1, 2}

Translate ==
    \E language \in RequestLanguages, message \in TranslateMessages,
       amount \in TranslateAmounts :
        /\ CKEDITOR_TRANSLATIONS' =
               StoreAfterTranslate(CKEDITOR_TRANSLATIONS, language, message, amount)
        /\ lastCall' =
               [called |-> TRUE,
                repeated |-> /\ lastCall.called
                             /\ lastCall.language = language
                             /\ lastCall.message = message
                             /\ lastCall.amount = amount,
                language |-> language, message |-> message, amount |-> amount,
                result |-> _translate(CKEDITOR_TRANSLATIONS, language, message, amount)]
        /\ UNCHANGED <<lastRegistered, lastPluralForm, messageVars, mixinVars,
                       errorVars>>

NextTranslate == Register \/ Clear \/ Translate

SpecTranslate == Init /\ [][NextTranslate]_vars

InitMessage ==
    /\ messageText \in Templates
    /\ formatValues \in ValueLists
    /\ formatOutput = NoOutput
    /\ StoreIdle
    /\ MixinIdle
    /\ ErrorIdle

\* what a call of the method op returned
Output(op, returned) ==
    [op |-> op, kind |-> returned.kind, text |-> returned.text,
     parts |-> returned.parts]

Format ==
    /\ formatOutput' = Output("format", format(messageText, formatValues))
    /\ UNCHANGED <<messageText, formatValues, storeVars, mixinVars, errorVars>>

FormatToParts ==
    /\ formatOutput' =
           Output("formatToParts", formatToParts(messageText, formatValues))
    /\ UNCHANGED <<messageText, formatValues, storeVars, mixinVars, errorVars>>

NextMessage == Format \/ FormatToParts

SpecMessage == InitMessage /\ [][NextMessage]_vars

InitMixin ==
    /\ objectKind \in Kinds
    /\ _disableStack = {}
    /\ isEnabled = TRUE
    /\ listeners = 0
    /\ refreshCalled = FALSE
    /\ outstanding = {}
    /\ lastOp = [op |-> "new", id |-> ""]
    /\ StoreIdle
    /\ MessageIdle
    /\ ErrorIdle

ForceDisabled ==
    \E id \in Ids :
        /\ forceDisabled(id)
        /\ refreshCalled' = FALSE
        /\ outstanding' = outstanding \cup {id}
        /\ lastOp' = [op |-> "forceDisabled", id |-> id]
        /\ UNCHANGED <<objectKind, storeVars, messageVars, errorVars>>

ClearForceDisabled ==
    \E id \in Ids :
        /\ clearForceDisabled(id)
        /\ outstanding' = outstanding \ {id}
        /\ lastOp' = [op |-> "clearForceDisabled", id |-> id]
        /\ UNCHANGED <<objectKind, storeVars, messageVars, errorVars>>

\* an attempt from outside to enable the object: this.isEnabled = true
SetEnabled ==
    /\ isEnabled' = SetIsEnabled(listeners, TRUE)
    /\ refreshCalled' = FALSE
    /\ lastOp' = [op |-> "set", id |-> ""]
    /\ UNCHANGED <<objectKind, _disableStack, listeners, outstanding, storeVars,
                   messageVars, errorVars>>

NextMixin == ForceDisabled \/ ClearForceDisabled \/ SetEnabled

SpecMixin == InitMixin /\ [][NextMixin]_vars

\* the object disables itself for its own reasons: this.isEnabled = false
SetDisabled ==
    /\ isEnabled' = SetIsEnabled(listeners, FALSE)
    /\ refreshCalled' = FALSE
    /\ lastOp' = [op |-> "unset", id |-> ""]
    /\ UNCHANGED <<objectKind, _disableStack, listeners, outstanding, storeVars,
                   messageVars, errorVars>>

NextMixinOwn == ForceDisabled \/ ClearForceDisabled \/ SetEnabled \/ SetDisabled

SpecMixinOwn == InitMixin /\ [][NextMixinOwn]_vars

InitError ==
    /\ heap \in Heaps
    /\ errorArguments \in [message : {"foo", ""},
                           data : {NoData} \cup {Ref(o) : o \in ObjectIds}]
    /\ error = NoError
    /\ StoreIdle
    /\ MessageIdle
    /\ MixinIdle

Construct ==
    /\ error' = CKEditorError(heap, errorArguments.message, errorArguments.data)
    /\ UNCHANGED <<heap, errorArguments, storeVars, messageVars, mixinVars>>

NextError == Construct

SpecError == InitError /\ [][NextError]_vars

(***************************************************************************)
(* Vocabulary of the properties, stated apart from the code above.         *)
(***************************************************************************)
T == CKEDITOR_TRANSLATIONS

\* the language a lookup is resolved in: the sole registered one, else the requested
EffectiveLanguage(requested) ==
    IF Cardinality(DOMAIN T) = 1 THEN CHOOSE l \in DOMAIN T : TRUE ELSE requested

\* the key a message is registered under: "<string>_<context>", or "<string>"
EffectiveKey(message) ==
    IF message.context \in {Undefined, Str("")} THEN message.string.s
    ELSE message.string.s \o "_" \o message.context.s

\* language has a record whose message table has an entry under key
HasEntry(language, key) ==
    language \in DOMAIN T /\ key \in DOMAIN T[language].dictionary

\* the caller-supplied fallback: the plural text when quantity # 1 and one was
\* supplied, else the base text
SourceFallback(message, quantity) ==
    IF quantity # 1 /\ message.plural # Undefined THEN message.plural
    ELSE message.string

\* the index the plural selector in effect for a language yields for a quantity:
\* the registered function's, else the English rule's
SelectedIndex(language, quantity) ==
    CASE T[language].getPluralForm = "polish" -> getPolishPluralForm(quantity)
      [] T[language].getPluralForm = "zero" -> 0
      [] OTHER -> IF quantity = 1 THEN 0 ELSE 1

Variants == <<"v0", "v1", "v2">>

\* C1: when no language is registered or the effective key has no entry for the
\* effective language, translate returns the plural text if quantity # 1 and a
\* plural text was supplied, and the base text otherwise.
C1_FallbackText ==
    \A requested \in RequestLanguages, message \in Messages, quantity \in Amounts :
        ~HasEntry(EffectiveLanguage(requested), EffectiveKey(message))
            => _translate(T, requested, message, quantity)
                   = SourceFallback(message, quantity)

\* C2: with exactly one language registered, translate called with any requested
\* language resolves the message against the sole language's table: the result
\* is the one for the sole language, and a key present there is returned as its
\* registered translation.
C2_SoleLanguageOverride ==
    Cardinality(DOMAIN T) = 1 =>
        LET sole == CHOOSE l \in DOMAIN T : TRUE
        IN  \A requested \in RequestLanguages, message \in Messages,
               quantity \in Amounts :
                /\ _translate(T, requested, message, quantity)
                       = _translate(T, sole, message, quantity)
                /\ (/\ HasEntry(sole, EffectiveKey(message))
                    /\ T[sole].dictionary[EffectiveKey(message)].t = "string")
                       => _translate(T, requested, message, quantity)
                              = T[sole].dictionary[EffectiveKey(message)]

\* C3: after any adds since the last _clear, each language's message table maps
\* every key ever registered for it to the value of the most recent add that held
\* that key: nothing an add does not supply is changed, and no key is removed.
C3_AddMerges ==
    /\ DOMAIN T = DOMAIN lastRegistered
    /\ \A l \in DOMAIN lastRegistered :
           /\ DOMAIN T[l].dictionary = DOMAIN lastRegistered[l]
           /\ \A k \in DOMAIN lastRegistered[l] :
                  T[l].dictionary[k] = lastRegistered[l][k]

\* C3's case: a table that two adds have merged, beside another language's table.
C3_Witness ==
    /\ DOMAIN T = {"pl", "de"}
    /\ DOMAIN T["pl"].dictionary = {"a", "a_c"}
    /\ T["pl"].dictionary["a"] = Str("x")
    /\ T["pl"].dictionary["a_c"] = Str("y")
    /\ T["de"].dictionary = [k \in {"a"} |-> Arr(<<"w0">>)]

\* C4: when the stored entry is a sequence of plural variants and the plural
\* selector in effect yields an index that exists in it, translate returns the
\* variant at that index (English rule: index 0 for quantity 1, else index 1).
C4_PluralVariantAtIndex ==
    \A requested \in RequestLanguages, message \in Messages, quantity \in Amounts :
        LET language == EffectiveLanguage(requested)
            key == EffectiveKey(message)
        IN  (/\ HasEntry(language, key)
             /\ T[language].dictionary[key].t = "array"
             /\ SelectedIndex(language, quantity)
                    \in 0..(Len(T[language].dictionary[key].a) - 1))
                => _translate(T, requested, message, quantity)
                       = Str(T[language].dictionary[key].a[
                                 SelectedIndex(language, quantity) + 1])

\* C4's case: the English rule picks index 1 for quantity 2 in one language, a
\* registered selector picks index 2 for quantity 5 in another.
C4_Witness ==
    /\ DOMAIN T = {"pl", "de"}
    /\ T["pl"].getPluralForm = "polish"
    /\ T["de"].getPluralForm = NoFunction
    /\ HasEntry("pl", "a") /\ T["pl"].dictionary["a"] = Arr(Variants)
    /\ HasEntry("de", "a") /\ T["de"].dictionary["a"] = Arr(Variants)
    /\ _translate(T, "pl", [string |-> Str("a"), context |-> Undefined,
                            plural |-> Str("p")], 5) = Str("v2")
    /\ _translate(T, "de", [string |-> Str("a"), context |-> Undefined,
                            plural |-> Str("p")], 2) = Str("v1")

\* C5: when the stored entry is a sequence of plural variants and the plural
\* selector yields an index that does not exist in it, translate returns the
\* variant at index 0 if there is one, else the caller-supplied fallback text.
C5_MissingVariantFallsBack ==
    \A requested \in RequestLanguages, message \in Messages, quantity \in Amounts :
        LET language == EffectiveLanguage(requested)
            key == EffectiveKey(message)
        IN  (/\ HasEntry(language, key)
             /\ T[language].dictionary[key].t = "array"
             /\ SelectedIndex(language, quantity)
                    \notin 0..(Len(T[language].dictionary[key].a) - 1))
                => _translate(T, requested, message, quantity)
                       = IF Len(T[language].dictionary[key].a) > 0
                         THEN Str(T[language].dictionary[key].a[1])
                         ELSE SourceFallback(message, quantity)

\* C6: when the stored entry for the effective key is a single string, translate
\* returns that string for every quantity, whatever the plural selector and the
\* message's plural text are.
C6_SingleStringEntry ==
    \A requested \in RequestLanguages, message \in Messages, quantity \in Amounts :
        LET language == EffectiveLanguage(requested)
            key == EffectiveKey(message)
        IN  (HasEntry(language, key) /\ T[language].dictionary[key].t = "string")
                => _translate(T, requested, message, quantity)
                       = T[language].dictionary[key]

\* the index the history of add() calls prescribes for a language: that of the
\* function most recently passed for it, else the English rule's
PrescribedIndex(language, quantity) ==
    CASE lastPluralForm[language] = "polish" -> getPolishPluralForm(quantity)
      [] lastPluralForm[language] = "zero" -> 0
      [] OTHER -> IF quantity = 1 THEN 0 ELSE 1

PluralFormsRuleIndex(n) == IF n = 1 THEN 0 ELSE IF n <= 4 THEN 1 ELSE 2

\* C8: for a language registered without a selector function whose table holds
\* the rule nplurals=3;plural=n==1?0:n<=4?1:2 under PLURAL_FORMS, translate picks
\* the plural variant by that rule: of [v0, v1, v2], v0 for quantity 1, v1 for
\* quantity 3, v2 for quantity 7.
C8_PluralFormsRule ==
    \A language \in DOMAIN T :
        (/\ T[language].getPluralForm = NoFunction
         /\ HasEntry(language, PLURAL_FORMS)
         /\ T[language].dictionary[PLURAL_FORMS] = Str(PluralFormsRule)
         /\ HasEntry(language, "a")
         /\ T[language].dictionary["a"] = Arr(Variants))
            => \A quantity \in Amounts :
                   _translate(T, language, [string |-> Str("a"), context |-> Undefined,
                                            plural |-> Str("p")], quantity)
                       = Str(Variants[PluralFormsRuleIndex(quantity) + 1])

\* C9: the entry registered for a message with a context and the entry registered
\* for the same text without a context are resolved independently: each lookup
\* returns its own entry, and the source text when its own entry is not registered.
C9_ContextIsolation ==
    \A language \in DOMAIN T, plural \in {Undefined, Str("p")} :
        LET with == [string |-> Str("a"), context |-> Str("c"), plural |-> plural]
            without == [string |-> Str("a"), context |-> Undefined, plural |-> plural]
            table == T[language].dictionary
        IN  /\ (HasEntry(language, "a_c") /\ table["a_c"].t = "string")
                   => _translate(T, language, with, 1) = table["a_c"]
            /\ (HasEntry(language, "a") /\ table["a"].t = "string")
                   => _translate(T, language, without, 1) = table["a"]
            /\ ~HasEntry(language, "a_c")
                   => _translate(T, language, with, 1) = Str("a")
            /\ ~HasEntry(language, "a")
                   => _translate(T, language, without, 1) = Str("a")

\* C10: after _clear no language is registered and translate returns the
\* caller-supplied fallback text for every language, message and quantity.
C10_ClearForgets ==
    [][_clear =>
          /\ Cardinality(DOMAIN T') = 0
          /\ \A requested \in RequestLanguages, message \in Messages,
                quantity \in Amounts :
                 _translate(T', requested, message, quantity)
                     = SourceFallback(message, quantity)]_vars

\* the structured message whose string is id, without context and plural
Structured(id) == [string |-> Str(id), context |-> Undefined, plural |-> Undefined]

\* C11: a message given as a bare message-id string is resolved exactly like the
\* structured message with that string and no context and no plural: Locale.t
\* returns the translation registered under the id for the UI language, and the
\* id itself when no translation is registered.
C11_BareStringMessage ==
    \A uiLanguage \in RequestLanguages, id \in {"a"} :
        /\ _t(T, uiLanguage, BareMessage(id), <<>>)
               = _t(T, uiLanguage, Structured(id), <<>>)
        /\ (/\ HasEntry(EffectiveLanguage(uiLanguage), id)
            /\ T[EffectiveLanguage(uiLanguage)].dictionary[id].t = "string")
               => _t(T, uiLanguage, BareMessage(id), <<>>)
                      = T[EffectiveLanguage(uiLanguage)].dictionary[id].s
        /\ ~HasEntry(EffectiveLanguage(uiLanguage), id)
               => _t(T, uiLanguage, BareMessage(id), <<>>) = id

LowerCaseChar(c) == IF c = "A" THEN "a" ELSE IF c = "C" THEN "c" ELSE c

RECURSIVE LowerCase(_)
\* the text with every upper-case letter replaced by its lower-case letter
LowerCase(text) ==
    IF Len(text) = 0 THEN ""
    ELSE LowerCaseChar(SubSeq(text, 1, 1)) \o LowerCase(SubSeq(text, 2, Len(text)))

\* C12: the message id is lowercased before lookup: a translation registered
\* under a lowercase key is returned by translate for a message whose text
\* differs from that key only in letter case.
C12_LowercasedLookup ==
    \A language \in DOMAIN T, text \in {"A"} :
        (/\ HasEntry(language, LowerCase(text))
         /\ T[language].dictionary[LowerCase(text)].t = "string")
            => _translate(T, language, Structured(text), 1)
                   = T[language].dictionary[LowerCase(text)]

\* the number of characters of the placeholder token %<digits> that text starts
\* with, 0 when it starts with none
TokenLength(text) ==
    IF Len(text) >= 2 /\ SubSeq(text, 1, 1) = "%" /\ IsDigit(SubSeq(text, 2, 2))
    THEN LET ends == {n \in 2..Len(text) :
                         \A i \in 2..n : IsDigit(SubSeq(text, i, i))}
         IN  CHOOSE n \in ends : \A m \in ends : m <= n
    ELSE 0

RECURSIVE Interpolated(_, _)
\* the text with every token %i, i within the values, replaced by the string
\* form of the i-th value, and every other token left as it is
Interpolated(text, values) ==
    IF Len(text) = 0 THEN ""
    ELSE LET n == TokenLength(text)
             i == parseInt(SubSeq(text, 2, n))
         IN  IF n = 0
             THEN SubSeq(text, 1, 1) \o Interpolated(SubSeq(text, 2, Len(text)), values)
             ELSE (IF i < Len(values) THEN StringOf(values[i + 1])
                   ELSE SubSeq(text, 1, n))
                      \o Interpolated(SubSeq(text, n + 1, Len(text)), values)

\* C14: Locale.t called with a message that has a plural form and a values list
\* selects the plural variant of the UI language by the first value, through
\* that language's plural function, and interpolates the values into it: with
\* the Polish function and variants [v0, v1, v2], 1 yields v0, 2 yields v1 and
\* 5 yields v2.
C14_LocalePluralByFirstValue ==
    \A language \in DOMAIN T :
        (/\ T[language].getPluralForm = "polish"
         /\ HasEntry(language, "a")
         /\ T[language].dictionary["a"] = Arr(Variants))
            => \A quantity \in Amounts :
                   _t(T, language, [string |-> Str("a"), context |-> Undefined,
                                    plural |-> Str("p")], <<Num(quantity)>>)
                       = Interpolated(Variants[getPolishPluralForm(quantity) + 1],
                                      <<Num(quantity)>>)

\* the store with the record of one language only
Only(language) == [l \in {language} |-> T[l]]

\* C20: for a language that has a record, the result of translate for that
\* language depends only on its own message table and plural function: whatever
\* was added for other languages, the result is the one the language's record
\* alone gives.
C20_OtherLanguagesDoNotInterfere ==
    \A language \in DOMAIN T, message \in Messages, quantity \in Amounts :
        _translate(T, language, message, quantity)
            = _translate(Only(language), language, message, quantity)

\* two languages are registered with different entries for the same key, and
\* the lookups for the two languages give different results
C20_Witness ==
    /\ DOMAIN T = {"pl", "de"}
    /\ HasEntry("pl", "a") /\ HasEntry("de", "a")
    /\ T["pl"].dictionary["a"] = Str("x")
    /\ T["de"].dictionary["a"] = Arr(Variants)
    /\ _translate(T, "pl", Structured("a"), 1) = Str("x")
    /\ _translate(T, "de", Structured("a"), 1) = Str("v0")

\* C13: interpolation replaces every token %i whose index is within the values
\* by the string form of values[i], for every occurrence and in any order, and
\* leaves every token whose index is out of range literally unchanged.
C13_Interpolation ==
    formatOutput.op = "format"
        => /\ formatOutput.kind = "string"
           /\ formatOutput.text = Interpolated(messageText, formatValues)

RECURSIVE Tokens(_)
\* the indices of the placeholder tokens of a text, in the order they occur
Tokens(text) ==
    IF Len(text) = 0 THEN <<>>
    ELSE LET n == TokenLength(text)
         IN  IF n = 0 THEN Tokens(SubSeq(text, 2, Len(text)))
             ELSE <<parseInt(SubSeq(text, 2, n))>>
                      \o Tokens(SubSeq(text, n + 1, Len(text)))

IsValuePart(p) == p.part = "value"

\* the value parts among the parts, in order
ValueParts(parts) == SelectSeq(parts, IsValuePart)

\* the value parts are, in order, the values at the indices of the tokens of
\* the text: the supplied value itself, or undefined when there is none
KeepsValues(parts, text, values) ==
    LET held == ValueParts(parts)
        tokens == Tokens(text)
    IN  /\ Len(held) = Len(tokens)
        /\ \A k \in 1..Len(tokens) :
               held[k].value = IF tokens[k] < Len(values)
                               THEN values[tokens[k] + 1] ELSE Undefined

RECURSIVE PartsText(_)
\* the parts joined, each value in its string form
PartsText(parts) ==
    IF Len(parts) = 0 THEN ""
    ELSE StringOf(Head(parts).value) \o PartsText(Tail(parts))

AllPrimitive(values) == \A i \in 1..Len(values) : values[i].t # "object"

\* C17 as stated: formatToParts returns the part sequence, with the supplied
\* values kept by identity, only when at least one supplied value is an object;
\* when every supplied value is primitive it returns the parts joined into one
\* string.
C17_PartsOrString ==
    formatOutput.op = "formatToParts"
        => IF AllPrimitive(formatValues)
           THEN /\ formatOutput.kind = "string"
                /\ formatOutput.text = Interpolated(messageText, formatValues)
           ELSE /\ formatOutput.kind = "array"
                /\ KeepsValues(formatOutput.parts, messageText, formatValues)

\* C17 amended: formatToParts returns the part sequence for every list of
\* values, primitive or not, and never a string: its value parts hold, in the
\* order of the tokens, the value at each token's index itself (undefined when
\* the index is out of range), and the parts joined with every value in string
\* form are the string format returns.
C17_AlwaysParts ==
    formatOutput.op = "formatToParts"
        => /\ formatOutput.kind = "array"
           /\ KeepsValues(formatOutput.parts, messageText, formatValues)
           /\ PartsText(formatOutput.parts)
                  = format(messageText, formatValues).text

\* formatToParts was called with primitive values only on a message with a
\* token they fill, and returned parts
C17_Witness ==
    /\ formatOutput.op = "formatToParts"
    /\ messageText = "%1 - %0 - %2"
    /\ formatValues = <<Str("a"), Str("b"), Str("c")>>
    /\ formatOutput.kind = "array"
    /\ Len(formatOutput.parts) = 7

\* the text ends with a placeholder token
EndsWithToken(text) ==
    \E k \in 1..Len(text) :
        TokenLength(SubSeq(text, k, Len(text))) = Len(text) - k + 1

\* C19: formatToParts returns, in order, only the literal segments of the
\* message with one value part per placeholder occurrence interspersed: for a
\* message that ends with a placeholder the last part is that value part, and
\* 'Replace %0 with %1' with ('foo', 'bar') yields exactly four parts.
C19_PartsEndWithValue ==
    formatOutput.op = "formatToParts"
        => /\ Len(ValueParts(formatOutput.parts)) = Len(Tokens(messageText))
           /\ EndsWithToken(messageText)
                  => formatOutput.parts[Len(formatOutput.parts)].part = "value"
           /\ (/\ messageText = "Replace %0 with %1"
               /\ formatValues = <<Str("foo"), Str("bar")>>)
                  => formatOutput.parts
                         = <<[part |-> "literal", value |-> Str("Replace ")],
                             [part |-> "value", value |-> Str("foo")],
                             [part |-> "literal", value |-> Str(" with ")],
                             [part |-> "value", value |-> Str("bar")]>>

\* C15: for an object that starts enabled with an empty disable set, after any
\* sequence of forceDisabled, clearForceDisabled and attempts to set isEnabled
\* to true: isEnabled is false whenever an id is outstanding; a plugin becomes
\* enabled again exactly when the last outstanding id is cleared; forceDisabled
\* with an id already outstanding changes neither isEnabled nor the disable
\* set, and a single clearForceDisabled of an id removes it.
C15_ForceDisabledStack ==
    [][/\ outstanding' # {} => ~isEnabled'
       /\ _disableStack' = outstanding'
       /\ objectKind = "plugin"
              => ((~isEnabled /\ isEnabled')
                     <=> (outstanding # {} /\ outstanding' = {}))
       /\ (lastOp'.op = "forceDisabled" /\ lastOp'.id \in outstanding)
              => /\ isEnabled' = isEnabled
                 /\ _disableStack' = _disableStack
       /\ lastOp'.op = "clearForceDisabled"
              => lastOp'.id \notin _disableStack']_vars

\* a plugin is disabled under one id after forceDisabled was repeated with it
C15_Witness ==
    /\ objectKind = "plugin"
    /\ outstanding = {"MyFeature"}
    /\ listeners = 2
    /\ ~isEnabled

\* C16: constructing a CKEditorError never raises, whatever the data, circular
\* or not; the error has the name 'CKEditorError', keeps the data object under
\* data, and its message is the given message followed by a space and the
\* serialized data, or the given message alone when no data is given.
C16_ConstructionNeverRaises ==
    error.done
        => /\ ~error.thrown
           /\ error.name = "CKEditorError"
           /\ error.data = errorArguments.data
           /\ errorArguments.data = NoData
                  => error.message = errorArguments.message
           /\ errorArguments.data # NoData
                  => SubSeq(error.message, 1, Len(errorArguments.message) + 1)
                         = errorArguments.message \o " "

C21_RegisteredReturnedVerbatim ==
    \A language \in DOMAIN lastRegistered, message \in Messages :
        LET key == EffectiveKey(message)
        IN  (/\ key \in DOMAIN lastRegistered[language]
             /\ lastRegistered[language][key].t = "string")
                => _translate(T, language, message, 1)
                       = lastRegistered[language][key]

\* the context a message carries: none when the property is absent or empty
ContextOf(message) ==
    IF message.context \in {Undefined, Str("")} THEN Undefined ELSE message.context

\* C22: the lookup key translate builds from a message is injective over
\* (string, context) pairs: two messages that differ in their string or in
\* their context, one with a context and one without included, never have the
\* same key, so the lookups for them never read the same dictionary entry.
C22_KeyInjective ==
    \A language \in DOMAIN T, first \in Messages, second \in Messages :
        (/\ hasTranslation(T, language, MessageId(first))
         /\ hasTranslation(T, language, MessageId(second))
         /\ \/ first.string # second.string
            \/ ContextOf(first) # ContextOf(second))
            => MessageId(first) # MessageId(second)

\* C23: clearForceDisabled with an id that is not in the disable set leaves the
\* object unchanged: isEnabled keeps its value, no refresh is triggered, and
\* the disable set and the listener registration are as before.
C23_ClearUnknownIdIsNoOp ==
    [][(lastOp'.op = "clearForceDisabled" /\ lastOp'.id \notin outstanding)
          => /\ isEnabled' = isEnabled
             /\ ~refreshCalled'
             /\ _disableStack' = _disableStack
             /\ listeners' = listeners]_vars

====
